---- MODULE Spec2Model ----
(***************************************************************************)
(* A model of byo-bundler (src/unnamed/part_000, the final revision of     *)
(* src/index.js): build() constructs the dependency graph through the      *)
(* process-wide MODULE_CACHE, bundles it into a module map plus runtime,   *)
(* adds the HTML shell, writes the artifacts, and the emitted bundle is    *)
(* then executed by a script host (webpackStart / require).                *)
(*                                                                         *)
(* Paths are sequences of segments ("/proj/src/a.js" is                    *)
(* <<"proj","src","a.js">>), import specifiers likewise ("./b.js" is       *)
(* <<".","b.js">>).  The file system is the environment: what a read or a  *)
(* package lookup returns is chosen when the code performs it.             *)
(***************************************************************************)
EXTENDS Integers, Sequences, FiniteSets, TLC

\* ------------------------------------------------------------- bounds

\* Most statements (imports and exports) in one script file.
MaxStmts == 3

\* Most statements in a script other than a.js, the project's entry script
\* (Spec and SpecTwoBuilds).
MaxLibStmts == 2

\* Most build() calls in one process (SpecTwoBuilds only).
MaxBuilds == 2

\* ------------------------------------------------------ the file universe

SrcDir == <<"proj", "src">>
PathA == SrcDir \o <<"a.js">>
PathB == SrcDir \o <<"b.js">>
PathSvg == SrcDir \o <<"i.svg">>
TemplatePath == <<"proj", "index.html">>
NoPath == <<>>

\* Where the package "normalize.css" is installed, when it is.
InstallDir == <<"proj", "node_modules">>

\* The arguments build() may be called with.
EntryFiles == {PathA, PathSvg}
TemplateArgs == {NoPath, TemplatePath}

\* Import specifiers a script file may use.
Specifiers ==
    { <<".", "a.js">>, <<".", "b.js">>, <<".", "i.svg">>, <<"normalize.css">> }

\* The k-th export statement of a file exports ExportNames[k]: the exported
\* names of one ES module are pairwise distinct, and which names they are
\* makes no difference to the bundler.
ExportNames == <<"x", "y", "z", "w", "v">>

\* ---------------------------------------------------------- source text

Stmt(t, s, n) == [type |-> t, source |-> s, name |-> n]

\* The statements of a script file's text: "import ... from <specifier>" or
\* "export const <name> = ...".
Tokens == { Stmt("import", s, "") : s \in Specifiers } \cup { Stmt("export", NoPath, "") }

SeqsUpTo(S, n) == UNION { [1..k -> S] : k \in 0..n }

Contents == SeqsUpTo(Tokens, MaxStmts)

\* The texts the file at filePath may hold.
ContentsOf(filePath) ==
    IF filePath = SrcDir \o <<"a.js">> THEN Contents ELSE SeqsUpTo(Tokens, MaxLibStmts)

\* The statements of a script that uses what it imports (SpecUses):
\* "import { x as i } from <specifier>", "export const <name> = ...", a
\* top-level statement that reads i, and a statement that hands the host
\* a callback reading i (a timer or event handler, run after the script).
UseTokens ==
    { Stmt("import", s, "x") : s \in { <<".", "a.js">>, <<".", "b.js">> } }
    \cup { Stmt("export", NoPath, ""), Stmt("use", NoPath, "x"),
           Stmt("useLater", NoPath, "x") }

\* Such a script declares i once, and reads it below its import statement.
UseContents ==
    { text \in SeqsUpTo(UseTokens, MaxStmts) :
        /\ \A j, k \in 1..Len(text) :
              text[j].type = "import" /\ text[k].type = "import" => j = k
        /\ \A k \in 1..Len(text) :
              text[k].type \in {"use", "useLater"} =>
                 \E j \in 1..(k - 1) : text[j].type = "import" }

\* Number of export statements among the first k statements of a text.
RECURSIVE ExportsBefore(_, _)
ExportsBefore(text, k) ==
    IF k = 0 THEN 0
    ELSE ExportsBefore(text, k - 1) + (IF text[k].type = "export" THEN 1 ELSE 0)

\* The statements of a script whose code may fail (SpecFailures): an
\* import of b.js, an export, a statement that throws when it runs, and a
\* statement that hands the host a handler calling the factory's require
\* parameter with a path (of b.js, or of i.svg, which has no factory).
FailTokens ==
    { Stmt("import", <<".", "b.js">>, ""), Stmt("export", NoPath, ""),
      Stmt("throw", NoPath, ""),
      Stmt("requireLater", SrcDir \o <<"b.js">>, ""),
      Stmt("requireLater", SrcDir \o <<"i.svg">>, "") }

FailContentsOf(filePath) ==
    IF filePath = SrcDir \o <<"a.js">> THEN SeqsUpTo(FailTokens, MaxStmts)
    ELSE SeqsUpTo(FailTokens, MaxLibStmts)

\* babel.parseSync: the program body, one node per statement.  An import
\* declaration's name is the imported name of its specifier ("" when it
\* has none); a Reference is a statement holding a reference to the
\* imported binding, a CallbackReference one holding it in a callback.
parseSync(text) ==
    [k \in 1..Len(text) |->
        CASE text[k].type = "import" ->
                Stmt("ImportDeclaration", text[k].source, text[k].name)
          [] text[k].type = "use" -> Stmt("Reference", NoPath, text[k].name)
          [] text[k].type = "useLater" -> Stmt("CallbackReference", NoPath, text[k].name)
          [] text[k].type = "throw" -> Stmt("ThrowStatement", NoPath, "")
          [] text[k].type = "requireLater" -> Stmt("CallbackRequire", text[k].source, "")
          [] OTHER ->
                Stmt("ExportNamedDeclaration", NoPath, ExportNames[ExportsBefore(text, k)])]

\* ----------------------------------------------------------------- paths

Last(s) == s[Len(s)]
dirname(p) == SubSeq(p, 1, Len(p) - 1)

\* path.extname of the files of the universe.
extname(filePath) ==
    CASE Last(filePath) \in {"a.js", "b.js"} -> ".js"
      [] Last(filePath) = "normalize.css" -> ".css"
      [] Last(filePath) = "i.svg" -> ".svg"
      [] OTHER -> ""

\* path.normalize on segments: "." is dropped, ".." removes the segment
\* before it.
RECURSIVE normalize(_, _)
normalize(done, rest) ==
    IF rest = <<>> THEN done
    ELSE IF Head(rest) = "." THEN normalize(done, Tail(rest))
    ELSE IF Head(rest) = ".."
         THEN normalize(IF done = <<>> THEN done ELSE dirname(done), Tail(rest))
    ELSE normalize(Append(done, Head(rest)), Tail(rest))

join(dir, rel) == normalize(<<>>, dir \o rel)

\* requestPath[0] === '.'
IsRelative(requestPath) == Head(requestPath) \in {".", ".."}

\* The node_modules directories resolveRequest hands to require.resolve:
\* requester.split('/') has the empty string before the leading '/', so
\* slice(0, i) for i = length-1 .. 1 is the first i-1 segments of the path.
requestPathsFarthestFirst(requester, i) ==
    [k \in 1..i |-> SubSeq(requester, 1, k - 1) \o <<"node_modules">>]

RECURSIVE requestPaths(_, _)
requestPaths(requester, i) ==
    IF i < 1 THEN <<>>
    ELSE <<SubSeq(requester, 1, i - 1) \o <<"node_modules">>>>
         \o requestPaths(requester, i - 1)

\* require.resolve(request, { paths }): the package in the first directory
\* of paths that holds it, its main file being <dir>/<request>/<request>;
\* NoPath stands for MODULE_NOT_FOUND.
RECURSIVE requireResolve(_, _, _)
requireResolve(requestPath, paths, installedDirs) ==
    IF paths = <<>> THEN NoPath
    ELSE IF Head(paths) \in installedDirs
         THEN Head(paths) \o requestPath \o requestPath
         ELSE requireResolve(requestPath, Tail(paths), installedDirs)

resolveRequest(requester, requestPath, installedDirs) ==
    IF IsRelative(requestPath)
    THEN join(dirname(requester), requestPath)
    ELSE requireResolve(requestPath, requestPaths(requester, Len(requester)),
                        installedDirs)

\* ------------------------------------------------------------------ state

VARIABLES
    phase,            \* where build() is: start, graph, bundle, html, write,
                      \* built, failed
    buildNo,          \* the number of this build() call in the process
    entryFile,        \* build's entryFile argument (NoPath before the call)
    htmlTemplatePath, \* build's htmlTemplatePath argument, drawn where
                      \* build reads it, in generateHTMLTemplate (NoPath:
                      \* not given)
    installed,        \* whether "normalize.css" is installed: unknown until
                      \* the first lookup, then yes or no
    MODULE_CACHE,     \* the process-wide Map: filePath -> Module (its id)
    modules,          \* the Module instances ever constructed, by id
    call,             \* the filePath createModule has just been called with
    stack,            \* the findDependencies activations, innermost last
    rootModule,       \* createDependencyGraph's result (0: none yet)
    bundled,          \* the emitted bundle.js: module map entries and entry
    outputFiles,      \* build's outputFiles array
    written,          \* names of the artifacts this build has written
    error,            \* the error that ended build(), if one did
    run,              \* where the script host is with bundle.js
    moduleCache,      \* the runtime's moduleCache: moduleName -> exports (id)
    objects,          \* the exports objects created, by id: their properties
    rtCall,           \* the moduleName require has just been called with
    rtStack,          \* the running factories, innermost last
    entered,          \* how often each factory was entered in this run
    scopes,           \* the scope of each factory that has returned, which
                      \* the callbacks it handed to the host close over
    lastUse,          \* the last evaluated read of an imported binding
    handlers,         \* the paths the handlers handed to the host will
                      \* call require with
    lastRequire       \* the last completed require call: what it returned,
                      \* the properties the result had, whether the
                      \* module's factory was running, the exports that
                      \* factory was handed and which of its requires it
                      \* was executing

buildVars == <<phase, buildNo, entryFile, htmlTemplatePath, installed, MODULE_CACHE,
               modules, call, stack, rootModule, bundled, outputFiles,
               written, error>>
runVars == <<run, moduleCache, objects, rtCall, rtStack, entered, scopes, lastUse,
             handlers, lastRequire>>
vars == <<buildVars, runVars>>

NoError == [name |-> "", message |-> <<>>]
NoBundle == [modules |-> <<>>, entry |-> NoPath]
NoRequire == [moduleName |-> NoPath, exports |-> 0, properties |-> {},
              running |-> FALSE, handed |-> 0, nth |-> 0]

NoUse == [moduleName |-> NoPath, pos |-> 0, key |-> "", value |-> FALSE,
          now |-> FALSE, atRequire |-> FALSE, callback |-> FALSE]

\* The state of a process that has not called build() yet, and of a host
\* that has not loaded a bundle.
NoRun ==
    /\ run = "idle"
    /\ moduleCache = << >>
    /\ objects = << >>
    /\ rtCall = NoPath
    /\ rtStack = << >>
    /\ entered = << >>
    /\ scopes = << >>
    /\ lastUse = NoUse
    /\ handlers = {}
    /\ lastRequire = NoRequire

Init ==
    /\ phase = "start"
    /\ buildNo = 1
    /\ entryFile = NoPath
    /\ htmlTemplatePath = NoPath
    /\ installed = "unknown"
    /\ MODULE_CACHE = << >>
    /\ modules = << >>
    /\ call = NoPath
    /\ stack = << >>
    /\ rootModule = 0
    /\ bundled = NoBundle
    /\ outputFiles = << >>
    /\ written = << >>
    /\ error = NoError
    /\ NoRun

\* --------------------------------------------------- graph construction

\* MODULE_LOADERS[fileExtension]: the module class, "" when there is none.
ModuleLoaderFallback(fileExtension) ==
    IF fileExtension = ".css" THEN "CSSModule" ELSE "JSModule"

MODULE_LOADERS(fileExtension) ==
    CASE fileExtension = ".css" -> "CSSModule"
      [] fileExtension = ".js" -> "JSModule"
      [] OTHER -> ""

\* MODULE_CACHE.has(filePath)
CacheNeverHas(cache, filePath) == FALSE

CacheHas(cache, filePath) == filePath \in DOMAIN cache

\* map.set(key, value) / object[key] = value
MapSet(map, key, value) ==
    [p \in DOMAIN map \cup {key} |-> IF p = key THEN value ELSE map[p]]

\* MODULE_CACHE.get(filePath): 0 stands for undefined.
CacheGet(cache, filePath) == IF filePath \in DOMAIN cache THEN cache[filePath] ELSE 0

\* What createModule does to the cache once `module` is constructed and
\* once its initDependencies() has returned: MODULE_CACHE.set stands
\* between the two.
CacheInsertionSkipped(step, cache, filePath, module) == cache

CacheInsertionLate(step, cache, filePath, module) ==
    IF step = "initialized" THEN MapSet(cache, filePath, module) ELSE cache

CacheInsertion(step, cache, filePath, module) ==
    IF step = "constructed" THEN MapSet(cache, filePath, module) ELSE cache

\* The positions of the import declarations in a program body
\* (ast.program.body.filter(node => node.type === 'ImportDeclaration')).
RECURSIVE importDeclarations(_, _)
importDeclarations(ast, k) ==
    IF k > Len(ast) THEN <<>>
    ELSE (IF ast[k].type = "ImportDeclaration" THEN <<k>> ELSE <<>>)
         \o importDeclarations(ast, k + 1)

\* importDeclaration.source.value = resolvedPath
SourceValueKept(node, resolvedPath) == node

SetSourceValue(node, resolvedPath) == [node EXCEPT !.source = resolvedPath]

\* What fs.readFileSync returns for a stylesheet: its rules.
StyleSheet == <<Stmt("StyleSheet", NoPath, "")>>

\* CSSModule.transform(): the style-injection script.
StyleInjection == <<Stmt("StyleInjection", NoPath, "")>>

\* this.transform(), the last statement of Module's constructor: a no-op
\* but for stylesheets, whose content becomes the style-injection script.
transform(m) ==
    IF m.cls = "CSSModule" THEN [m EXCEPT !.content = StyleInjection] ELSE m

Throw(name, message) ==
    /\ phase' = "failed"
    /\ error' = [name |-> name, message |-> message]
    /\ call' = NoPath
    /\ stack' = << >>

\* dependencies.push(createModule(resolvedPath))
PushIfAbsent(dependencies, module) ==
    IF \E k \in 1..Len(dependencies) : dependencies[k] = module
    THEN dependencies ELSE Append(dependencies, module)

Push(dependencies, module) == Append(dependencies, module)

\* createModule returns `module` to its caller: to createDependencyGraph
\* when no findDependencies is active, else to the innermost one, which
\* pushes it, rewrites the import's source and goes on with its loop.
Return(stk, mods, module) ==
    IF stk = << >>
    THEN /\ rootModule' = module
         /\ phase' = "bundle"
         /\ stack' = stk
         /\ modules' = mods
    ELSE LET f == stk[Len(stk)]
             pos == importDeclarations(mods[f.module].ast, 1)[f.i]
         IN /\ stack' = [stk EXCEPT ![Len(stk)] =
                            [f EXCEPT !.dependencies = Push(@, module),
                                      !.i = @ + 1,
                                      !.resolvedPath = NoPath]]
            /\ modules' = [mods EXCEPT ![f.module].ast[pos] =
                              SetSourceValue(@, f.resolvedPath)]
            /\ UNCHANGED <<rootModule, phase>>

\* build() calls createDependencyGraph(entryFile), which calls
\* createModule(entryFile).
CreateDependencyGraph ==
    /\ phase = "start"
    /\ phase' = "graph"
    /\ entryFile' \in EntryFiles
    /\ call' = entryFile'
    /\ UNCHANGED <<buildNo, htmlTemplatePath, installed, MODULE_CACHE,
                   modules, stack, rootModule, bundled, outputFiles, written, error>>
    /\ UNCHANGED runVars

\* createModule(filePath) with filePath in the cache.
CreateModuleCached ==
    /\ phase = "graph"
    /\ call # NoPath
    /\ CacheHas(MODULE_CACHE, call)
    /\ Return(stack, modules, CacheGet(MODULE_CACHE, call))
    /\ call' = NoPath
    /\ UNCHANGED <<buildNo, entryFile, htmlTemplatePath, installed, MODULE_CACHE,
                   bundled, outputFiles, written, error>>
    /\ UNCHANGED runVars

\* createModule(filePath) of a file whose extension has no loader.
CreateModuleUnsupported ==
    /\ phase = "graph"
    /\ call # NoPath
    /\ ~CacheHas(MODULE_CACHE, call)
    /\ MODULE_LOADERS(extname(call)) = ""
    /\ Throw("Error", <<"Unsupported extension", extname(call)>>)
    /\ UNCHANGED <<buildNo, entryFile, htmlTemplatePath, installed, MODULE_CACHE,
                   modules, rootModule, bundled, outputFiles, written>>
    /\ UNCHANGED runVars

\* The node_modules directories that hold the package, by install state:
\* "yes" and "no" are the project's InstallDir or nowhere; the other
\* states (SpecPackages) put copies beside the sources, in the project
\* and at the root of the file system.
InstalledDirs(inst) ==
    CASE inst = "yes" -> {InstallDir}
      [] inst = "src" -> {SrcDir \o <<"node_modules">>}
      [] inst = "root" -> {<<"node_modules">>}
      [] inst = "src+proj" -> {SrcDir \o <<"node_modules">>, InstallDir}
      [] inst = "proj+root" -> {InstallDir, <<"node_modules">>}
      [] inst = "all" -> {SrcDir \o <<"node_modules">>, InstallDir, <<"node_modules">>}
      [] OTHER -> {}

\* new ModuleCls(filePath) throws: fs.readFileSync finds no file (not so
\* for a path require.resolve has found in an installed package), or
\* babel.parseSync rejects a script's text.
CreateModuleThrows ==
    /\ phase = "graph"
    /\ call # NoPath
    /\ ~CacheHas(MODULE_CACHE, call)
    /\ MODULE_LOADERS(extname(call)) # ""
    /\ \/ /\ \A dir \in InstalledDirs(installed) : SubSeq(call, 1, Len(dir)) # dir
          /\ Throw("ENOENT", call)
       \/ /\ MODULE_LOADERS(extname(call)) = "JSModule"
          /\ Throw("SyntaxError", call)
    /\ UNCHANGED <<buildNo, entryFile, htmlTemplatePath, installed, MODULE_CACHE,
                   modules, rootModule, bundled, outputFiles, written>>
    /\ UNCHANGED runVars

NewModule(filePath, cls, content, ast) ==
    [filePath |-> filePath, cls |-> cls, text |-> content, content |-> content,
     ast |-> ast, dependencies |-> << >>, initialized |-> FALSE, build |-> buildNo]

\* createModule(filePath) of a script not in the cache: the module is
\* constructed (read, parsed), cached, and its initDependencies() starts.
\* The file holds one of the texts `contents`.
CreateModuleReading(contents) ==
    /\ phase = "graph"
    /\ call # NoPath
    /\ ~CacheHas(MODULE_CACHE, call)
    /\ MODULE_LOADERS(extname(call)) = "JSModule"
    /\ \E text \in contents :
         /\ modules' = Append(modules,
                        transform(NewModule(call, "JSModule", text, parseSync(text))))
         /\ MODULE_CACHE' = CacheInsertion("constructed", MODULE_CACHE, call,
                                           Len(modules) + 1)
         /\ stack' = Append(stack, [module |-> Len(modules) + 1, i |-> 1,
                                    dependencies |-> << >>, resolvedPath |-> NoPath])
    /\ call' = NoPath
    /\ UNCHANGED <<phase, buildNo, entryFile, htmlTemplatePath, installed,
                   rootModule, bundled, outputFiles, written, error>>
    /\ UNCHANGED runVars

CreateModuleJS == CreateModuleReading(ContentsOf(call))

\* createModule(filePath) of a stylesheet not in the cache: constructed
\* (read, transformed into the style-injection script), cached, initialized
\* with no dependencies, and returned.
CreateModuleCSS ==
    /\ phase = "graph"
    /\ call # NoPath
    /\ ~CacheHas(MODULE_CACHE, call)
    /\ MODULE_LOADERS(extname(call)) = "CSSModule"
    /\ LET module == Len(modules) + 1
           mods == Append(modules,
                      [transform(NewModule(call, "CSSModule", StyleSheet, << >>))
                          EXCEPT !.initialized = TRUE])
       IN /\ MODULE_CACHE' =
                CacheInsertion("initialized",
                    CacheInsertion("constructed", MODULE_CACHE, call, module),
                    call, module)
          /\ Return(stack, mods, CacheGet(MODULE_CACHE', call))
    /\ call' = NoPath
    /\ UNCHANGED <<buildNo, entryFile, htmlTemplatePath, installed,
                   bundled, outputFiles, written, error>>
    /\ UNCHANGED runVars

\* One iteration of findDependencies' loop, up to its createModule call:
\* the import's request is resolved (a package lookup fails when the
\* package is not installed).  Whether and where the package is installed
\* is learnt at the first lookup: it is one of `installs`.
FindDependenciesAmong(installs) ==
    /\ phase = "graph"
    /\ call = NoPath
    /\ stack # << >>
    /\ LET f == stack[Len(stack)]
           m == modules[f.module]
           decls == importDeclarations(m.ast, 1)
       IN /\ f.i <= Len(decls)
          /\ LET requestPath == m.ast[decls[f.i]].source
             IN \E inst \in (IF IsRelative(requestPath) \/ installed # "unknown"
                             THEN {installed} ELSE installs) :
                  LET resolvedPath == resolveRequest(m.filePath, requestPath,
                                                     InstalledDirs(inst))
                  IN /\ installed' = inst
                     /\ IF resolvedPath = NoPath
                        THEN Throw("MODULE_NOT_FOUND", requestPath)
                        ELSE /\ call' = resolvedPath
                             /\ stack' = [stack EXCEPT ![Len(stack)].resolvedPath =
                                             resolvedPath]
                             /\ UNCHANGED <<phase, error>>
    /\ UNCHANGED <<buildNo, entryFile, htmlTemplatePath, MODULE_CACHE, modules,
                   rootModule, bundled, outputFiles, written>>
    /\ UNCHANGED runVars

FindDependencies == FindDependenciesAmong({"yes", "no"})

\* findDependencies returns: initDependencies assigns this.dependencies and
\* createModule returns MODULE_CACHE.get(filePath) to its caller.
FindDependenciesReturn ==
    /\ phase = "graph"
    /\ call = NoPath
    /\ stack # << >>
    /\ LET f == stack[Len(stack)]
           m == modules[f.module]
       IN /\ f.i > Len(importDeclarations(m.ast, 1))
          /\ MODULE_CACHE' = CacheInsertion("initialized", MODULE_CACHE, m.filePath,
                                            f.module)
          /\ Return(SubSeq(stack, 1, Len(stack) - 1),
                    [modules EXCEPT ![f.module].dependencies = f.dependencies,
                                    ![f.module].initialized = TRUE],
                    CacheGet(MODULE_CACHE', m.filePath))
    /\ UNCHANGED <<buildNo, entryFile, htmlTemplatePath, installed,
                   call, bundled, outputFiles, written, error>>
    /\ UNCHANGED runVars

GraphNext ==
    \/ CreateDependencyGraph
    \/ CreateModuleCached
    \/ CreateModuleUnsupported
    \/ CreateModuleThrows
    \/ CreateModuleJS
    \/ CreateModuleCSS
    \/ FindDependencies
    \/ FindDependenciesReturn

\* --------------------------------------------------------------- bundling

InSeq(x, seq) == \E k \in 1..Len(seq) : seq[k] = x

\* collectModules' inner collect(module, modules): modules is the Set, in
\* insertion order.  A module whose dependencies were never assigned has
\* none to walk (the forEach on it throws: see CollectThrows).
RECURSIVE collect(_, _, _)
RECURSIVE collectEach(_, _, _, _)
collectShallow(mods, module, acc) ==
    IF InSeq(module, acc) THEN acc
    ELSE Append(acc, module) \o
         SelectSeq(mods[module].dependencies,
                   LAMBDA d : d # module /\ ~InSeq(d, acc))

collect(mods, module, acc) ==
    IF InSeq(module, acc) THEN acc
    ELSE collectEach(mods, mods[module].dependencies, 1, Append(acc, module))

collectEach(mods, dependencies, k, acc) ==
    IF k > Len(dependencies) THEN acc
    ELSE collectEach(mods, dependencies, k + 1, collect(mods, dependencies[k], acc))

collectModules(mods, graph) == collect(mods, graph, << >>)

\* module.dependencies.forEach on a module whose dependencies are undefined.
CollectThrows(mods, graph) ==
    \E k \in 1..Len(collectModules(mods, graph)) :
        ~mods[collectModules(mods, graph)[k]].initialized

\* The ImportDeclaration visitor: const _imported = require(<source>).
ImportDeclarationVisitor(node) == Stmt("require", node.source, "")

\* The ExportNamedDeclaration visitor: exports.<name> = <value>.
ExportNamedDeclarationVisitor(node) == Stmt("exports", NoPath, node.name)

\* The local bindings a top-level statement declares: "export const x = e"
\* declares x; the expression statement "exports.x = e" and the other
\* statements of the model declare no binding of the source's names.
Declares(node) ==
    IF node.type = "ExportNamedDeclaration" THEN {node.name} ELSE {}

\* specifier.scope.getBinding(name), as the position of the import
\* declaration that declares the binding (0: there is none).
getBinding(ast, name) ==
    IF \E p \in 1..Len(ast) : ast[p].type = "ImportDeclaration" /\ ast[p].name = name
    THEN CHOOSE p \in 1..Len(ast) :
            ast[p].type = "ImportDeclaration" /\ ast[p].name = name
    ELSE 0

\* The ImportDeclaration visitor's loop over binding.referencePaths: the
\* reference at k becomes <_imported>["<importedKey>"], _imported being the
\* identifier the import's require call is bound to (named here by the
\* declaration's source).
ReferencePathReplaced(ast, k) ==
    Stmt(IF ast[k].type = "Reference" THEN "member" ELSE "callbackMember",
         ast[getBinding(ast, ast[k].name)].source, ast[k].name)

\* babel.transformFromAstSync with the plugin: each statement is replaced
\* where it stands; statements that are neither imports nor exports nor
\* references to an imported binding stay.
transformInPlace(ast) ==
    [k \in 1..Len(ast) |->
        CASE ast[k].type = "ImportDeclaration" -> ImportDeclarationVisitor(ast[k])
          [] ast[k].type = "ExportNamedDeclaration" -> ExportNamedDeclarationVisitor(ast[k])
          [] /\ ast[k].type \in {"Reference", "CallbackReference"}
             /\ getBinding(ast, ast[k].name) # 0 -> ReferencePathReplaced(ast, k)
          [] OTHER -> ast[k]]

transformHoistingImports(ast) ==
    SelectSeq(transformInPlace(ast), LAMBDA n : n.type = "require")
    \o SelectSeq(transformInPlace(ast), LAMBDA n : n.type # "require")

transformFromAstSync(ast) == transformInPlace(ast)

\* module.transformModuleInterface(): a no-op but for scripts.
transformModuleInterface(m) ==
    IF m.cls = "JSModule"
    THEN [m EXCEPT !.ast = transformFromAstSync(m.ast),
                   !.content = transformFromAstSync(m.ast)]
    ELSE m

\* toModuleMap: every collected module is transformed and gets one
\* "<filePath>": function(exports, require) { <content> } entry.
toModuleMap(mods, collected) ==
    [k \in 1..Len(collected) |->
        [key |-> mods[collected[k]].filePath,
         body |-> transformModuleInterface(mods[collected[k]]).content]]

\* modules[0].filePath, the entry bundle hands to addRuntime.
EntryPathOfLast(mods, collected) == mods[collected[Len(collected)]].filePath

EntryPath(mods, collected) == mods[collected[1]].filePath

\* bundle(graph): collectModules, toModuleMap, addRuntime.
Bundle ==
    /\ phase = "bundle"
    /\ IF CollectThrows(modules, rootModule)
       THEN /\ Throw("TypeError", <<"Cannot read property 'forEach' of undefined">>)
            /\ UNCHANGED <<modules, bundled, outputFiles>>
       ELSE LET collected == collectModules(modules, rootModule)
            IN /\ modules' = [id \in 1..Len(modules) |->
                                 IF InSeq(id, collected)
                                 THEN transformModuleInterface(modules[id])
                                 ELSE modules[id]]
               /\ bundled' = [modules |-> toModuleMap(modules, collected),
                              entry |-> EntryPath(modules, collected)]
               /\ outputFiles' = <<[name |-> "bundle.js", scripts |-> << >>]>>
               /\ phase' = "html"
               /\ UNCHANGED <<call, stack, error>>
    /\ UNCHANGED <<buildNo, entryFile, htmlTemplatePath, installed, MODULE_CACHE,
                   rootModule, written>>
    /\ UNCHANGED runVars

\* outputFiles.push(generateHTMLTemplate(htmlTemplatePath, outputFiles)):
\* fs.readFileSync throws when no path was given or no file is there; else
\* the template gets one script tag per artifact emitted so far.
GenerateHTMLTemplate ==
    /\ phase = "html"
    /\ htmlTemplatePath' \in TemplateArgs
    /\ \/ /\ htmlTemplatePath' = NoPath
          /\ Throw("TypeError", <<"The \"path\" argument must be of type string">>)
          /\ UNCHANGED outputFiles
       \/ /\ htmlTemplatePath' # NoPath
          /\ Throw("ENOENT", htmlTemplatePath')
          /\ UNCHANGED outputFiles
       \/ /\ htmlTemplatePath' # NoPath
          /\ outputFiles' = Append(outputFiles,
                [name |-> "index.html",
                 scripts |-> [k \in 1..Len(outputFiles) |-> outputFiles[k].name]])
          /\ phase' = "write"
          /\ UNCHANGED <<call, stack, error>>
    /\ UNCHANGED <<buildNo, entryFile, installed, MODULE_CACHE,
                   modules, rootModule, bundled, written>>
    /\ UNCHANGED runVars

\* One iteration of build's write loop: fs.writeFileSync writes the next
\* artifact or throws; after the last one build() returns.
WriteOutputFile ==
    /\ phase = "write"
    /\ Len(written) < Len(outputFiles)
    /\ LET outputFile == outputFiles[Len(written) + 1]
       IN \/ /\ written' = Append(written, outputFile.name)
             /\ phase' = IF Len(written') = Len(outputFiles) THEN "built" ELSE "write"
             /\ UNCHANGED <<call, stack, error>>
          \/ /\ Throw("EIO", <<outputFile.name>>)
             /\ UNCHANGED written
    /\ UNCHANGED <<buildNo, entryFile, htmlTemplatePath, installed, MODULE_CACHE,
                   modules, rootModule, bundled, outputFiles>>
    /\ UNCHANGED runVars

BuildNext ==
    \/ GraphNext
    \/ Bundle
    \/ GenerateHTMLTemplate
    \/ WriteOutputFile

\* ------------------------------------------------- the emitted runtime

\* modules[moduleName] of the emitted object literal: of several entries
\* with one key the last one counts; << >> when there is none (undefined).
HasFactory(moduleMap, moduleName) ==
    \E k \in 1..Len(moduleMap) : moduleMap[k].key = moduleName

Factory(moduleMap, moduleName) ==
    LET last == CHOOSE k \in 1..Len(moduleMap) :
                    /\ moduleMap[k].key = moduleName
                    /\ \A j \in (k + 1)..Len(moduleMap) : moduleMap[j].key # moduleName
    IN moduleMap[last].body

\* if (moduleCache[moduleName]): an exports object is truthy.
RuntimeNeverCached(cache, moduleName) == FALSE

RuntimeCached(cache, moduleName) == moduleName \in DOMAIN cache

\* The innermost running factory of moduleName (0: it is not running).
Running(stk, moduleName) ==
    IF \E k \in 1..Len(stk) : stk[k].moduleName = moduleName
    THEN CHOOSE k \in 1..Len(stk) :
            /\ stk[k].moduleName = moduleName
            /\ \A j \in (k + 1)..Len(stk) : stk[j].moduleName # moduleName
    ELSE 0

\* require returns `exports` for moduleName to its caller: the factory that
\* called it binds the result and goes on, webpackStart ends the run.
RuntimeReturn(stk, moduleName, exports) ==
    /\ lastRequire' =
          LET r == Running(stk, moduleName)
          IN [moduleName |-> moduleName, exports |-> exports,
              properties |-> objects'[exports],
              running |-> r # 0,
              handed |-> IF r # 0 THEN stk[r].exports ELSE 0,
              nth |-> IF r # 0 THEN Len(stk[r].imported) + 1 ELSE 0]
    /\ IF stk = << >>
       THEN /\ run' = "finished"
            /\ rtStack' = stk
       ELSE /\ rtStack' = [stk EXCEPT ![Len(stk)].imported = Append(@, exports),
                                      ![Len(stk)].seen = Append(@, objects'[exports]),
                                      ![Len(stk)].pc = @ + 1]
            /\ UNCHANGED run

\* The host loads the written bundle.js: webpackStart({ modules, entry })
\* creates an empty moduleCache and calls require(entry).
WebpackStart ==
    /\ phase = "built"
    /\ run = "idle"
    /\ run' = "running"
    /\ moduleCache' = << >>
    /\ rtCall' = bundled.entry
    /\ UNCHANGED <<objects, rtStack, entered, scopes, lastUse, handlers, lastRequire>>
    /\ UNCHANGED buildVars

\* require(moduleName) with moduleName in the cache.
RequireCached ==
    /\ run = "running"
    /\ rtCall # NoPath
    /\ RuntimeCached(moduleCache, rtCall)
    /\ UNCHANGED objects
    /\ RuntimeReturn(rtStack, rtCall, moduleCache[rtCall])
    /\ rtCall' = NoPath
    /\ UNCHANGED <<moduleCache, entered, scopes, lastUse, handlers>>
    /\ UNCHANGED buildVars

\* require(moduleName) with moduleName not in the cache: a fresh exports
\* object is cached, then modules[moduleName] is called with it (a
\* TypeError when the module map has no such entry).
RequireNew ==
    /\ run = "running"
    /\ rtCall # NoPath
    /\ ~RuntimeCached(moduleCache, rtCall)
    /\ LET exports == Len(objects) + 1
       IN /\ objects' = Append(objects, {})
          /\ moduleCache' = MapSet(moduleCache, rtCall, exports)
          /\ IF HasFactory(bundled.modules, rtCall)
             THEN /\ rtStack' = Append(rtStack,
                        [moduleName |-> rtCall, exports |-> exports, pc |-> 1,
                         imported |-> << >>, seen |-> << >>])
                  /\ entered' = MapSet(entered, rtCall,
                        IF rtCall \in DOMAIN entered THEN entered[rtCall] + 1 ELSE 1)
                  /\ UNCHANGED run
             ELSE /\ run' = "crashed"
                  /\ rtStack' = << >>
                  /\ UNCHANGED entered
    /\ rtCall' = NoPath
    /\ UNCHANGED <<scopes, lastUse, handlers, lastRequire>>
    /\ UNCHANGED buildVars

\* The value of the identifier a member statement reads: what the require
\* statement of its import was bound to, i.e. the result of the n-th
\* require the factory made, with the properties that result had then.
ImportedBinding(body, scope, source) ==
    LET p == CHOOSE p \in 1..Len(body) :
                /\ body[p].type = "require" /\ body[p].source = source
                /\ \A j \in 1..(p - 1) :
                      ~(body[j].type = "require" /\ body[j].source = source)
        n == Cardinality({ j \in 1..p : body[j].type = "require" })
    IN [exports |-> scope.imported[n], seen |-> scope.seen[n]]

\* <_imported>["<key>"]: a property read, made when the statement runs
\* (TRUE: the property is there, FALSE: the read gives undefined).
MemberReadAtRequire(binding, objs, key) == key \in binding.seen

MemberRead(binding, objs, key) == key \in objs[binding.exports]

\* The statement at k of `body` reads its imported binding in `scope`.
Use(body, scope, k) ==
    LET binding == ImportedBinding(body, scope, body[k].source)
    IN [moduleName |-> scope.moduleName, pos |-> k, key |-> body[k].name,
        value |-> MemberRead(binding, objects, body[k].name),
        now |-> body[k].name \in objects[moduleCache[body[k].source]],
        atRequire |-> body[k].name \in binding.seen,
        callback |-> body[k].type = "callbackMember"]

\* The innermost factory executes its next statement.
ExecStatement ==
    /\ run = "running"
    /\ rtCall = NoPath
    /\ rtStack # << >>
    /\ LET f == rtStack[Len(rtStack)]
           body == Factory(bundled.modules, f.moduleName)
       IN /\ f.pc <= Len(body)
          /\ body[f.pc].type # "ThrowStatement"
          /\ CASE body[f.pc].type = "require" ->
                    /\ rtCall' = body[f.pc].source
                    /\ UNCHANGED <<objects, rtStack, lastUse, handlers>>
               [] body[f.pc].type = "exports" ->
                    /\ objects' = [objects EXCEPT ![f.exports] = @ \cup {body[f.pc].name}]
                    /\ rtStack' = [rtStack EXCEPT ![Len(rtStack)].pc = @ + 1]
                    /\ UNCHANGED <<rtCall, lastUse, handlers>>
               [] body[f.pc].type = "member" ->
                    /\ lastUse' = Use(body, f, f.pc)
                    /\ rtStack' = [rtStack EXCEPT ![Len(rtStack)].pc = @ + 1]
                    /\ UNCHANGED <<rtCall, objects, handlers>>
               [] body[f.pc].type = "CallbackRequire" ->
                    /\ handlers' = handlers \cup {body[f.pc].source}
                    /\ rtStack' = [rtStack EXCEPT ![Len(rtStack)].pc = @ + 1]
                    /\ UNCHANGED <<rtCall, objects, lastUse>>
               [] OTHER ->
                    /\ rtStack' = [rtStack EXCEPT ![Len(rtStack)].pc = @ + 1]
                    /\ UNCHANGED <<rtCall, objects, lastUse, handlers>>
    /\ UNCHANGED <<run, moduleCache, entered, scopes, lastRequire>>
    /\ UNCHANGED buildVars

\* The innermost factory ends: its require returns moduleCache[moduleName].
FactoryReturn ==
    /\ run = "running"
    /\ rtCall = NoPath
    /\ rtStack # << >>
    /\ LET f == rtStack[Len(rtStack)]
       IN /\ f.pc > Len(Factory(bundled.modules, f.moduleName))
          /\ UNCHANGED objects
          /\ RuntimeReturn(SubSeq(rtStack, 1, Len(rtStack) - 1), f.moduleName,
                           moduleCache[f.moduleName])
          /\ scopes' = MapSet(scopes, f.moduleName, f)
    /\ UNCHANGED <<rtCall, moduleCache, entered, lastUse, handlers>>
    /\ UNCHANGED buildVars

\* What an exception leaving the running factories does to moduleCache:
\* require has no try/finally, the entries it made stay.
UnwindEvicting(cache, stk) ==
    [p \in DOMAIN cache \ { stk[k].moduleName : k \in 1..Len(stk) } |-> cache[p]]

Unwind(cache, stk) == cache

\* The innermost factory's next statement throws: nothing catches the
\* exception, it leaves every running factory and require call, and the
\* script (or the handler that made the call) ends with it.
FactoryThrows ==
    /\ run = "running"
    /\ rtCall = NoPath
    /\ rtStack # << >>
    /\ LET f == rtStack[Len(rtStack)]
           body == Factory(bundled.modules, f.moduleName)
       IN /\ f.pc <= Len(body)
          /\ body[f.pc].type = "ThrowStatement"
    /\ run' = "crashed"
    /\ rtStack' = << >>
    /\ moduleCache' = Unwind(moduleCache, rtStack)
    /\ UNCHANGED <<objects, rtCall, entered, scopes, lastUse, handlers, lastRequire>>
    /\ UNCHANGED buildVars

\* After the script has ended, the host calls a handler some factory
\* handed to it: the handler calls require with its path.
HandlerRequires ==
    /\ run \in {"finished", "crashed"}
    /\ \E moduleName \in handlers : rtCall' = moduleName
    /\ run' = "running"
    /\ UNCHANGED <<moduleCache, objects, rtStack, entered, scopes, lastUse, handlers,
                   lastRequire>>
    /\ UNCHANGED buildVars

\* After the script has run, the host calls a callback some factory handed
\* to it: the callback reads its imported binding in that factory's scope.
Callback ==
    /\ run = "finished"
    /\ \E moduleName \in DOMAIN scopes :
         LET body == Factory(bundled.modules, moduleName)
         IN \E k \in 1..Len(body) :
               /\ body[k].type = "callbackMember"
               /\ lastUse' = Use(body, scopes[moduleName], k)
    /\ UNCHANGED <<run, moduleCache, objects, rtCall, rtStack, entered, scopes,
                   handlers, lastRequire>>
    /\ UNCHANGED buildVars

RunNext ==
    \/ WebpackStart
    \/ RequireCached
    \/ RequireNew
    \/ ExecStatement
    \/ FactoryReturn

\* ------------------------------------------------------- specifications

\* One process: build() is called once (the last statement of the source
\* file), and a host may then run the bundle it wrote.
Next == BuildNext \/ RunNext

Spec == Init /\ [][Next]_vars

\* A process that calls build() again after a build has ended: the
\* module-level MODULE_CACHE and the Module instances in it stay.
BuildAgain ==
    /\ phase \in {"built", "failed"}
    /\ run = "idle"
    /\ buildNo < MaxBuilds
    /\ buildNo' = buildNo + 1
    /\ phase' = "start"
    /\ entryFile' = NoPath
    /\ htmlTemplatePath' = NoPath
    /\ call' = NoPath
    /\ stack' = << >>
    /\ rootModule' = 0
    /\ bundled' = NoBundle
    /\ outputFiles' = << >>
    /\ written' = << >>
    /\ error' = NoError
    /\ UNCHANGED <<installed, MODULE_CACHE, modules>>
    /\ UNCHANGED runVars

NextTwoBuilds == Next \/ BuildAgain

SpecTwoBuilds == Init /\ [][NextTwoBuilds]_vars

\* A project of scripts that use what they import from each other and hand
\* callbacks to the host, which calls them after the bundle has run.
CreateModuleUses == CreateModuleReading(UseContents)

NextUses ==
    \/ CreateDependencyGraph
    \/ CreateModuleCached
    \/ CreateModuleUnsupported
    \/ CreateModuleThrows
    \/ CreateModuleUses
    \/ FindDependencies
    \/ FindDependenciesReturn
    \/ Bundle
    \/ GenerateHTMLTemplate
    \/ WriteOutputFile
    \/ RunNext
    \/ Callback

SpecUses == Init /\ [][NextUses]_vars

\* A project whose scripts import b.js and the package, of which copies
\* may be installed at several levels above the sources.
PackageContents ==
    SeqsUpTo({ Stmt("import", s, "") : s \in { <<".", "b.js">>, <<"normalize.css">> } },
             MaxStmts)

CreateModulePackages == CreateModuleReading(PackageContents)

FindDependenciesAnywhere ==
    FindDependenciesAmong({"no", "yes", "src", "root", "src+proj", "proj+root", "all"})

NextPackages ==
    \/ CreateDependencyGraph
    \/ CreateModuleCached
    \/ CreateModuleUnsupported
    \/ CreateModuleThrows
    \/ CreateModulePackages
    \/ CreateModuleCSS
    \/ FindDependenciesAnywhere
    \/ FindDependenciesReturn
    \/ Bundle
    \/ GenerateHTMLTemplate
    \/ WriteOutputFile
    \/ RunNext

SpecPackages == Init /\ [][NextPackages]_vars

\* A project whose scripts may throw while the bundle runs and keep their
\* require parameter in handlers the host calls after the script.
CreateModuleFailing == CreateModuleReading(FailContentsOf(call))

NextFailures ==
    \/ CreateDependencyGraph
    \/ CreateModuleCached
    \/ CreateModuleUnsupported
    \/ CreateModuleThrows
    \/ CreateModuleFailing
    \/ FindDependencies
    \/ FindDependenciesReturn
    \/ Bundle
    \/ GenerateHTMLTemplate
    \/ WriteOutputFile
    \/ RunNext
    \/ FactoryThrows
    \/ HandlerRequires

SpecFailures == Init /\ [][NextFailures]_vars

\* ------------------------------------------------------------- claims

Range(seq) == { seq[k] : k \in 1..Len(seq) }

\* C1: in the emitted runtime a require(P) issued while P's factory is
\* still running returns the very exports object P's factory was handed,
\* and no factory is entered more than once during one run of the bundle.
C1_RequireWhileRunningReturnsCachedExports ==
    /\ lastRequire.running => lastRequire.exports = lastRequire.handed
    /\ \A p \in DOMAIN entered : entered[p] <= 1
    /\ \A j, k \in 1..Len(rtStack) :
          rtStack[j].moduleName = rtStack[k].moduleName => j = k

\* A require(a.js) made from b.js's factory, itself required by a.js's
\* still running factory, has returned.
C1_Witness ==
    /\ lastRequire.running
    /\ lastRequire.moduleName = PathA
    /\ Len(rtStack) = 2
    /\ rtStack[2].moduleName = PathB
    /\ rtStack[2].imported = <<lastRequire.exports>>

\* The paths createModule can be called with.
UniversePaths ==
    { resolveRequest(r, s, {InstallDir}) : r \in {PathA, PathB}, s \in Specifiers }
    \cup EntryFiles

\* A bound on the work graph construction has left: every path not yet in
\* the cache may still be constructed and walk MaxStmts imports; every
\* active findDependencies has its remaining iterations and its return;
\* a createModule call just made has to be served.
FrameWork(f) ==
    3 * (Len(importDeclarations(modules[f.module].ast, 1)) + 1 - f.i) + 1
    - (IF f.resolvedPath # NoPath THEN 2 ELSE 0)

RECURSIVE StackWork(_)
StackWork(k) == IF k = 0 THEN 0 ELSE FrameWork(stack[k]) + StackWork(k - 1)

Measure ==
    (3 * MaxStmts + 3) * Cardinality(UniversePaths \ DOMAIN MODULE_CACHE)
    + StackWork(Len(stack))
    + (IF call # NoPath THEN 1 ELSE 0)

\* C2: createDependencyGraph terminates on every import graph, cyclic ones
\* and self-imports included: no path is constructed twice, and every step
\* of graph construction strictly lowers a bound on the work left, which
\* never goes below zero.
C2_GraphConstructionTerminates ==
    /\ [](\A i, j \in 1..Len(modules) :
            modules[i].filePath = modules[j].filePath => i = j)
    /\ [](phase = "graph" => Measure >= 0 /\ (call # NoPath \/ stack # << >>))
    /\ [][phase = "graph" /\ phase' = "graph" => Measure' < Measure]_vars

\* Graph construction has returned for a.js and b.js importing each other,
\* a.js importing itself as well.
C2_Witness ==
    /\ phase = "bundle"
    /\ Len(modules) = 2
    /\ modules[1].filePath = PathA
    /\ modules[1].dependencies = <<1, 2>>
    /\ modules[2].dependencies = <<1>>

\* The modules reachable from `from` over dependencies edges, as the least
\* set closed under them.
RECURSIVE ReachableFrom(_)
ReachableFrom(S) ==
    LET T == S \cup UNION { Range(modules[m].dependencies) : m \in S }
    IN IF T = S THEN S ELSE ReachableFrom(T)

\* C3: the module map produced by bundle(root) has exactly one entry per
\* path reachable from the root module over dependencies edges: none
\* missing, none twice, none unreachable.
C3_ModuleMapIsReachableSet ==
    bundled # NoBundle =>
        LET keys == [k \in 1..Len(bundled.modules) |-> bundled.modules[k].key]
        IN /\ Range(keys) = { modules[m].filePath : m \in ReachableFrom({rootModule}) }
           /\ \A j, k \in 1..Len(keys) : keys[j] = keys[k] => j = k

\* A bundle of three modules in which the stylesheet is imported by both
\* scripts, which also import each other.
C3_Witness ==
    /\ bundled # NoBundle
    /\ Len(bundled.modules) = 3
    /\ Len(modules) = 3
    /\ \E c \in 1..3 :
          /\ modules[c].cls = "CSSModule"
          /\ \A m \in 1..3 : m # c =>
                /\ InSeq(c, modules[m].dependencies)
                /\ \E d \in 1..3 : d \notin {c, m} /\ InSeq(d, modules[m].dependencies)

\* The Module instances createModule has returned in this build and that
\* are still referenced: the root, every dependencies entry.
Returned ==
    (IF rootModule = 0 THEN {} ELSE {rootModule})
    \cup UNION { Range(modules[m].dependencies) : m \in 1..Len(modules) }
    \cup UNION { Range(stack[k].dependencies) : k \in 1..Len(stack) }

\* C4: within one build at most one Module instance exists per path, and
\* every createModule(p), also one made while p is being initialized,
\* returns that instance, so every dependencies edge to p references it.
C4_OneModulePerPath ==
    /\ \A i, j \in 1..Len(modules) :
          modules[i].filePath = modules[j].filePath => i = j
    /\ \A p \in DOMAIN MODULE_CACHE : modules[MODULE_CACHE[p]].filePath = p
    /\ \A m \in Returned :
          /\ modules[m].filePath \in DOMAIN MODULE_CACHE
          /\ MODULE_CACHE[modules[m].filePath] = m

\* a.js imports itself twice: both createModule calls made while a.js is
\* being initialized have returned the one instance.
C4_Witness ==
    /\ phase = "graph"
    /\ Len(stack) = 1
    /\ stack[1].module = 1
    /\ stack[1].dependencies = <<1, 1>>
    /\ ~modules[1].initialized

\* C5: a module is in the module cache before createModule is called for
\* any of its dependencies: whenever its findDependencies is active (a
\* createModule call for one of its imports may be in progress), its path
\* is a key of the cache, mapped to it.
C5_CachedBeforeDependenciesLoad ==
    \A k \in 1..Len(stack) :
        /\ modules[stack[k].module].filePath \in DOMAIN MODULE_CACHE
        /\ MODULE_CACHE[modules[stack[k].module].filePath] = stack[k].module

\* createModule(a.js) has just been called from b.js's findDependencies,
\* itself called while a.js is being initialized.
C5_Witness ==
    /\ call = PathA
    /\ Len(stack) = 2
    /\ modules[stack[1].module].filePath = PathA
    /\ modules[stack[2].module].filePath = PathB

\* C6: every import statement of every bundled script has become, where
\* it stood, a require call whose argument is the resolved path of the
\* import, which is the key of a module map entry; so a run of the bundle
\* never looks up a path that has no factory.
C6_RequireTargetsAreKeys ==
    /\ bundled # NoBundle =>
          \A e \in 1..Len(bundled.modules) :
             LET key == bundled.modules[e].key
                 body == bundled.modules[e].body
                 m == modules[MODULE_CACHE[key]]
             IN m.cls = "JSModule" =>
                  /\ Len(body) = Len(m.text)
                  /\ \A k \in 1..Len(body) :
                        m.text[k].type = "import" =>
                           /\ body[k].type = "require"
                           /\ body[k].source =
                                 resolveRequest(key, m.text[k].source,
                                                InstalledDirs(installed))
                           /\ HasFactory(bundled.modules, body[k].source)
    /\ run # "crashed"

\* A run has finished of a bundle in which a.js requires b.js and b.js
\* requires the installed stylesheet package.
C6_Witness ==
    /\ run = "finished"
    /\ \E e, f \in 1..Len(bundled.modules) :
          /\ bundled.modules[e].key = PathA
          /\ bundled.modules[f].key = PathB
          /\ \E k \in 1..Len(bundled.modules[e].body) :
                bundled.modules[e].body[k] = Stmt("require", PathB, "")
          /\ \E k \in 1..Len(bundled.modules[f].body) :
                bundled.modules[f].body[k] =
                   Stmt("require", InstallDir \o <<"normalize.css", "normalize.css">>, "")

\* The names a script exports in the statements of its text that stand
\* before its n-th import statement.
ExportedBeforeImport(text, n) ==
    LET ast == parseSync(text)
        pos == importDeclarations(ast, 1)[n]
    IN { ast[k].name : k \in { j \in 1..(pos - 1) : ast[j].type = "ExportNamedDeclaration" } }

\* C7: when a require(A) is made while A's factory is running (A is in a
\* cycle), the exports object it returns holds, at that moment, exactly
\* the properties A's text exports before the import statement whose
\* require A is executing, and none of those A exports after it.
C7_CycleSeesExportsBeforeRequire ==
    lastRequire.running =>
        lastRequire.properties =
            ExportedBeforeImport(modules[MODULE_CACHE[lastRequire.moduleName]].text,
                                 lastRequire.nth)

\* a.js is "export x; import b.js; export y", b.js imports a.js: b.js's
\* require(a.js) has returned the exports holding x and not y.
C7_Witness ==
    /\ lastRequire.running
    /\ lastRequire.moduleName = PathA
    /\ bundled.entry = PathA
    /\ lastRequire.properties = {"x"}
    /\ Len(rtStack) = 2
    /\ rtStack[2].moduleName = PathB
    /\ Factory(bundled.modules, PathA) =
          <<Stmt("exports", NoPath, "x"), Stmt("require", PathB, ""),
            Stmt("exports", NoPath, "y")>>

\* C8: the module cache is build-scoped: a build starts with an empty
\* module cache, and createModule returns no Module instance that an
\* earlier build of the process created.
C8_CacheIsBuildScoped ==
    /\ phase = "start" => DOMAIN MODULE_CACHE = {}
    /\ \A m \in Returned : modules[m].build = buildNo

\* C9: when the build reaches a file whose extension has no registered
\* loader, wherever in the graph and after however many modules, it fails
\* with an error naming that extension and writes no artifact; no Module
\* is ever made of such a file.
C9_UnsupportedExtensionFailsBuild ==
    /\ [](\A m \in 1..Len(modules) : extname(modules[m].filePath) \in {".js", ".css"})
    /\ [][(phase = "graph" /\ call # NoPath /\ extname(call) \notin {".js", ".css"})
            => /\ phase' = "failed"
               /\ error'.message = <<"Unsupported extension", extname(call)>>
               /\ written' = << >>
               /\ run' = "idle"]_vars
    /\ [](error.message = <<"Unsupported extension", ".svg">>
            => phase = "failed" /\ written = << >> /\ run = "idle")

\* The build has failed on i.svg, imported by b.js after a.js, b.js and
\* the stylesheet were loaded.
C9_Witness ==
    /\ phase = "failed"
    /\ error.message = <<"Unsupported extension", ".svg">>
    /\ written = << >>
    /\ Len(modules) = 3
    /\ Len(stack) = 0
    /\ modules[2].filePath = PathB
    /\ ~modules[2].initialized

\* C10: a build that failed, at whatever step, has written no artifact.
C10_FailedBuildWritesNothing ==
    phase = "failed" => written = << >>

\* C11: no module's content is transformed into its runtime script text
\* while modules are still being loaded: until createDependencyGraph has
\* returned, the content of every module of this build, script or
\* stylesheet, is the text that was read from its file.
C11_TransformedOnlyAfterGraphConstruction ==
    phase = "graph" =>
        \A m \in 1..Len(modules) :
            modules[m].build = buildNo => modules[m].content = modules[m].text

\* C12: a missing import is reported as a resolution failure and not as a
\* later read failure: resolveRequest never returns the path of a file
\* that does not exist, so the only files a build can fail to read are
\* the ones named by build's own arguments.
C12_MissingImportIsResolutionFailure ==
    (phase = "failed" /\ error.name = "ENOENT") =>
        error.message \in {entryFile, htmlTemplatePath}

\* C13: the transform of a named export keeps the declaration: for every
\* "export const x = e" of a bundled script, the transformed body still
\* declares the local binding x and, in addition, assigns exports.x.
C13_NamedExportKeepsDeclaration ==
    bundled # NoBundle =>
        \A e \in 1..Len(bundled.modules) :
            LET body == bundled.modules[e].body
                m == modules[MODULE_CACHE[bundled.modules[e].key]]
            IN m.cls = "JSModule" =>
                 \A k \in 1..Len(m.text) :
                    m.text[k].type = "export" =>
                       LET name == parseSync(m.text)[k].name
                       IN /\ \E j \in 1..Len(body) : name \in Declares(body[j])
                          /\ \E j \in 1..Len(body) :
                                body[j] = Stmt("exports", NoPath, name)

C15_HtmlTemplateIsOptional ==
    /\ error.message # <<"The \"path\" argument must be of type string">>
    /\ phase = "built" =>
          IF htmlTemplatePath = NoPath
          THEN written = <<"bundle.js">>
          ELSE /\ written = <<"bundle.js", "index.html">>
               /\ outputFiles[2].scripts = <<"bundle.js">>

\* `part` stands in `message`, as a run of its elements.
Mentions(message, part) ==
    \E k \in 0..(Len(message) - Len(part)) :
        SubSeq(message, k + 1, k + Len(part)) = part

\* C16: the unsupported-extension error identifies both the offending
\* file path and the extension: the only file of the universe without a
\* loader being i.svg, its message names that path and ".svg".
C16_UnsupportedExtensionErrorNamesPath ==
    (phase = "failed" /\ error.name = "Error") =>
        /\ Mentions(error.message, <<extname(PathSvg)>>)
        /\ Mentions(error.message, PathSvg)

\* The import specifiers of a script's text, in source order.
ImportSources(text) ==
    LET ast == parseSync(text)
        decls == importDeclarations(ast, 1)
    IN [i \in 1..Len(decls) |-> ast[decls[i]].source]

\* C17: once a module is initialized, its dependencies hold, for a script,
\* one element per import statement in source order (repeats included),
\* the i-th being the Module of the resolved target of the i-th import,
\* and for a stylesheet nothing; and no later step (loading of other
\* modules, collectModules, transformModuleInterface, toModuleMap, the
\* run of the bundle) changes the dependencies of an initialized module.
C17_DependenciesFollowImportsAndStay ==
    /\ [](\A m \in 1..Len(modules) :
            modules[m].initialized =>
               IF modules[m].cls = "JSModule"
               THEN LET sources == ImportSources(modules[m].text)
                    IN /\ Len(modules[m].dependencies) = Len(sources)
                       /\ \A i \in 1..Len(sources) :
                             modules[modules[m].dependencies[i]].filePath =
                                resolveRequest(modules[m].filePath, sources[i],
                                               InstalledDirs(installed))
               ELSE modules[m].dependencies = << >>)
    /\ [][\A m \in 1..Len(modules) :
            modules[m].initialized =>
               /\ modules'[m].initialized
               /\ modules'[m].dependencies = modules[m].dependencies]_vars

\* The bundle has run of a.js importing b.js, the stylesheet and b.js
\* again: a.js's dependencies are b.js, the stylesheet, b.js.
C17_Witness ==
    /\ run = "finished"
    /\ Len(modules) = 3
    /\ modules[1].filePath = PathA
    /\ modules[1].dependencies = <<2, 3, 2>>
    /\ modules[2].filePath = PathB
    /\ modules[3].cls = "CSSModule"
    /\ modules[3].dependencies = << >>

\* The node_modules directories beside and above the file /d1/.../dn/file,
\* nearest first: /d1/.../dn/node_modules, ..., /d1/node_modules,
\* /node_modules.
Candidates(requester) ==
    [k \in 1..Len(requester) |->
        SubSeq(requester, 1, Len(requester) - k) \o <<"node_modules">>]

\* C18: for a bare specifier the directories resolveRequest searches from
\* requester /d1/.../dn/file are exactly /d1/.../dn/node_modules, ...,
\* /d1/node_modules, /node_modules, in that order, and the package found
\* in the earliest of them wins; the lookup fails only when none of them
\* holds the package.
C18_NearestPackageCopyWins ==
    /\ \A k \in 1..Len(stack) :
          LET f == stack[k]
              requester == modules[f.module].filePath
              sources == ImportSources(modules[f.module].text)
          IN (f.resolvedPath # NoPath /\ ~IsRelative(sources[f.i])) =>
                /\ requestPaths(requester, Len(requester)) = Candidates(requester)
                /\ \E j \in 1..Len(requester) :
                      /\ Candidates(requester)[j] \in InstalledDirs(installed)
                      /\ \A i \in 1..(j - 1) :
                            Candidates(requester)[i] \notin InstalledDirs(installed)
                      /\ f.resolvedPath =
                            Candidates(requester)[j] \o sources[f.i] \o sources[f.i]
    /\ error.name = "MODULE_NOT_FOUND" => InstalledDirs(installed) = {}

\* a.js imports the package, of which the project and the root of the file
\* system hold a copy, and the sources' directory none: the project's
\* copy has been found.
C18_Witness ==
    /\ installed = "proj+root"
    /\ call = InstallDir \o <<"normalize.css", "normalize.css">>
    /\ Len(stack) = 1
    /\ modules[stack[1].module].filePath = PathA
    /\ stack[1].resolvedPath = call

\* C19: the entry the runtime passes to its first require is the path of
\* the root module given to bundle, which is the first element of
\* collectModules' result; so the entry module's factory is the first one
\* executed and the outermost one running, and every other require is
\* made from a running factory.
C19_EntryFactoryRunsFirst ==
    /\ bundled # NoBundle =>
          /\ collectModules(modules, rootModule)[1] = rootModule
          /\ bundled.entry = modules[rootModule].filePath
    /\ (rtCall # NoPath /\ rtStack = << >>) =>
          (rtCall = bundled.entry /\ DOMAIN entered = {})
    /\ rtStack # << >> => rtStack[1].moduleName = bundled.entry
    /\ DOMAIN entered # {} => bundled.entry \in DOMAIN entered

\* Three factories are running: the entry a.js, b.js required by it, and
\* the stylesheet required by b.js.
C19_Witness ==
    /\ Len(rtStack) = 3
    /\ bundled.entry = PathA
    /\ rtStack[1].moduleName = PathA
    /\ rtStack[2].moduleName = PathB
    /\ Cardinality(DOMAIN entered) = 3

\* C20: once createDependencyGraph has returned, every Module in the cache
\* and every Module reachable from the root has its dependencies
\* assigned, so collectModules never reads an unassigned dependencies
\* field.
C20_DependenciesAssignedOnceGraphReturned ==
    /\ phase \in {"bundle", "html", "write", "built"} =>
          /\ \A p \in DOMAIN MODULE_CACHE : modules[MODULE_CACHE[p]].initialized
          /\ \A m \in ReachableFrom({rootModule}) : modules[m].initialized
    /\ error.message # <<"Cannot read property 'forEach' of undefined">>

\* The paths whose require call has failed in this run: cached, but the
\* factory neither is running nor has returned.
Failed ==
    { p \in DOMAIN moduleCache : p \notin DOMAIN scopes /\ Running(rtStack, p) = 0 }

\* C21: in the emitted runtime the exports-cache entry of a path is made
\* before the factory is looked up and called, and is never removed during
\* a run; when require(P) has failed, because P's factory threw or P has
\* no factory, a later require(P) returns the cached exports object, empty
\* or partly filled, without error and without running a factory.
C21_FailedRequireStaysCached ==
    /\ [](\A k \in 1..Len(rtStack) :
            /\ rtStack[k].moduleName \in DOMAIN moduleCache
            /\ moduleCache[rtStack[k].moduleName] = rtStack[k].exports)
    /\ [][rtCall # NoPath => rtCall \in DOMAIN moduleCache']_vars
    /\ [][run # "idle" =>
            \A p \in DOMAIN moduleCache :
               p \in DOMAIN moduleCache' /\ moduleCache'[p] = moduleCache[p]]_vars
    /\ [][(rtCall \in Failed) =>
            (/\ run' # "crashed"
             /\ lastRequire'.moduleName = rtCall
             /\ lastRequire'.exports = moduleCache[rtCall]
             /\ lastRequire'.properties = objects[moduleCache[rtCall]]
             /\ entered' = entered
             /\ objects' = objects)]_vars

\* a.js hands the host a handler requiring b.js, then imports b.js, which
\* assigns exports.x and throws; the handler's require(b.js) has returned
\* the cached exports holding x, and b.js's factory has run once.
C21_Witness ==
    /\ run = "finished"
    /\ bundled.entry = PathA
    /\ Failed = {PathA, PathB}
    /\ lastRequire.moduleName = PathB
    /\ lastRequire.exports = moduleCache[PathB]
    /\ lastRequire.properties = {"x"}
    /\ entered[PathB] = 1

====
